---- MODULE Spec2Model ----
(***************************************************************************)
(* Model of the mobilier-be backend: the user router, the FurnitureService *)
(* singleton and IdNotFoundException.                                      *)
(*                                                                         *)
(* One HTTP request is in flight at a time.  A request walks the           *)
(* middleware array of its route, then the handler's synchronous part up   *)
(* to its await, then the continuation after the awaited call settles.     *)
(* res.locals is empty when a request reaches the router: only the         *)
(* middlewares listed in the route's own array run before its handler.     *)
(* An exception that leaves an async handler rejects its promise; the      *)
(* framework forwards the rejection to next(err) (Express 5) or leaves it  *)
(* unhandled (Express 4), which express5 fixes for a whole behaviour.      *)
(* The modules the router imports (the middlewares, UserService, the       *)
(* enums, HttpExceptions) are modelled from their documented behaviour.    *)
(* Strings that the code parses (query parameters) are sequences of        *)
(* one-character strings; an optional value is a sequence of length 0 or 1.*)
(***************************************************************************)
EXTENDS Integers, Sequences, FiniteSets, TLC

VARIABLES
  express5,    \* TRUE: the framework forwards a rejected handler promise to next(err) (Express 5); FALSE: it does not (Express 4)
  users,       \* ids of the users the store holds
  issued,      \* ids the store has ever handed out
  req,         \* the request in flight
  pc,          \* "idle", "chain", "handler", "await", "done"
  idx,         \* position in the route's middleware array
  valErrors,   \* fields express-validator has recorded an error for
  locals,      \* res.locals of the request
  hlocals,     \* the handler's local constants pagination / sorting (GET /)
  trace,       \* what has run for this request, in order
  svcCalls,    \* UserService invocations of this request, in order
  responses,   \* responses sent by res.status(..).json/send, in order
  nextErrs,    \* errors handed to next(error), in order
  unhandled,   \* errors of rejected handler promises nobody forwarded
  deleted,     \* ids whose DELETE answered 204, with no create since
  constructed, \* IdNotFoundException constructions of this request: arguments and object
  instance,    \* FurnitureService.instance (0: not yet constructed)
  objects,     \* number of FurnitureService objects constructed so far
  viaGet,      \* how many of them getInstance constructed
  returned,    \* the objects getInstance has returned
  lastCall     \* the last FurnitureService method call and what it did

routerVars == <<express5, users, issued, req, pc, idx, valErrors, locals, hlocals,
                trace, svcCalls, responses, nextErrs, unhandled, deleted,
                constructed>>
furnitureVars == <<instance, objects, viaGet, returned, lastCall>>
vars == <<routerVars, furnitureVars>>

----------------------------------------------------------------------------
(* Bounds of the model *)
MaxUsers == 2
MaxAddresses == 2
MaxQueryLen == 2
MaxObjects == 3
MaxNumber == 111

(* Program constants *)
OK == 200
CREATED == 201
NO_CONTENT == 204
NOT_FOUND == 404
UNPROCESSABLE == 422
UNAUTHORIZED == 401
FORBIDDEN == 403
MinPasswordLen == 8
MongoIdLen == 24
DefaultPage == 0
DefaultSize == 5

None == <<>>
Some(x) == <<x>>

----------------------------------------------------------------------------
(* Roles and tokens *)
USER == "USER"
ADMIN == "ADMIN"
Roles == {USER, ADMIN, "GUEST"}
Tokens == {"none", "bad"} \cup Roles

Routes == {"GET /", "GET /:id", "POST /login", "POST /", "PUT /address/:id",
           "PUT /:id", "DELETE /:id"}
IdRoutes == {"GET /:id", "PUT /address/:id", "PUT /:id", "DELETE /:id"}
GuardedRoutes == {"GET /"} \cup IdRoutes

(* admittedRoles of each handler *)
AdmittedRoles(route) ==
  CASE route = "GET /" -> {ADMIN}
    [] route = "GET /:id" -> {USER, ADMIN}
    [] route = "PUT /address/:id" -> {USER}
    [] route = "PUT /:id" -> {USER}
    [] route = "DELETE /:id" -> {USER, ADMIN}
    [] OTHER -> Roles

----------------------------------------------------------------------------
(* Number(string) on strings over the digits and "-"; anything else is NaN *)
Digits == {"0", "1"}
QueryChars == Digits \cup {"-", "a"}
DigitVal(c) == IF c = "1" THEN 1 ELSE 0
IsDigits(s) == Len(s) >= 1 /\ \A i \in 1..Len(s) : s[i] \in Digits

RECURSIVE DecValue(_)
DecValue(s) ==
  IF s = <<>> THEN 0
  ELSE 10 * DecValue(SubSeq(s, 1, Len(s) - 1)) + DigitVal(s[Len(s)])

NaN == [nan |-> TRUE, val |-> 0]
Num(n) == [nan |-> FALSE, val |-> n]

(* Number(x) for x undefined (None) or a string (Some(s)) *)
Number(x) ==
  IF x = None THEN NaN
  ELSE LET s == x[1] IN
       IF s = <<>> THEN Num(0)
       ELSE IF IsDigits(s) THEN Num(DecValue(s))
       ELSE IF s[1] = "-" /\ IsDigits(Tail(s)) THEN Num(0 - DecValue(Tail(s)))
       ELSE NaN

OrNumberNullish(n, d) == IF n.nan THEN d ELSE n.val
(* n || d on numbers: NaN and 0 are falsy *)
OrNumber(n, d) == IF n.nan \/ n.val = 0 THEN d ELSE n.val

(* s || d on an optional string: undefined and "" are falsy *)
OrString(x, d) == IF x = None \/ x = Some("") THEN d ELSE x[1]

(* lines 19-20 *)
PaginationOf(query) ==
  [page |-> OrNumber(Number(query.page), DefaultPage),
   size |-> OrNumber(Number(query.size), DefaultSize)]

SortingOf(query) == OrString(query.sort_by, "+name")

----------------------------------------------------------------------------
(* Requests *)
Ids == 1..MaxUsers

(* a path id: n names the document, hex/len are the shape isMongoId tests *)
GoodId(n) == [hex |-> TRUE, len |-> MongoIdLen, n |-> n]
PathIds ==
  {GoodId(n) : n \in Ids}
    \cup {[hex |-> FALSE, len |-> MongoIdLen, n |-> 1],
          [hex |-> TRUE, len |-> MongoIdLen - 1, n |-> 1]}
NoId == [hex |-> FALSE, len |-> 0, n |-> 0]

IsMongoId(id) == id.hex /\ id.len = MongoIdLen

Emails == {"ann@mail.com", "not-an-email"}
IsEmail(e) == e = "ann@mail.com"

AddrA == [country |-> "FR", state |-> "IDF", street |-> "1 rue A", city |-> "Paris",
          roomNumber |-> "12"]
AddrB == [country |-> "ES", state |-> "MD", street |-> "2 calle B", city |-> "Madrid",
          roomNumber |-> ""]
AddrBad == [country |-> "", state |-> "IDF", street |-> "3 rue C", city |-> "Lyon",
            roomNumber |-> ""]
Addresses == {AddrA, AddrB, AddrBad}
AddressLists == UNION {[1..k -> Addresses] : k \in 0..MaxAddresses}

EmptyBody ==
  [firstName |-> "", lastName |-> "", email |-> "", password |-> "", phone |-> "",
   role |-> "", address |-> None,
   country |-> "", state |-> "", street |-> "", city |-> "", roomNumber |-> ""]

GoodUserBody ==
  [EmptyBody EXCEPT !.firstName = "Ann", !.lastName = "Lee", !.email = "ann@mail.com",
                    !.password = "s3cretpw", !.phone = "555", !.role = USER]

UserBodies ==
  {GoodUserBody,
   [GoodUserBody EXCEPT !.firstName = ""],
   [GoodUserBody EXCEPT !.lastName = ""],
   [GoodUserBody EXCEPT !.email = "not-an-email"],
   [GoodUserBody EXCEPT !.password = ""],
   [GoodUserBody EXCEPT !.password = "short"],
   [GoodUserBody EXCEPT !.role = ADMIN, !.phone = ""]}

NoQuery == [page |-> None, size |-> None, sort_by |-> None]
QueryStrings == UNION {[1..k -> QueryChars] : k \in 0..MaxQueryLen}
QueryValues == {None} \cup {Some(s) : s \in QueryStrings}
(* the query strings the router specification draws from *)
QuerySamples == {None, Some(<<>>), Some(<<"0">>), Some(<<"1", "0">>), Some(<<"a">>)}
SortValues == {None, Some(""), Some("-email")}

BaseReq(route, token) ==
  [route |-> route, token |-> token, id |-> NoId, query |-> NoQuery, body |-> EmptyBody]

ListReqs(tokens, values) ==
  {[BaseReq("GET /", t) EXCEPT !.query = [page |-> p, size |-> s, sort_by |-> o]] :
     t \in tokens, p \in values, s \in values, o \in SortValues}

IdReqs(route) == {[BaseReq(route, t) EXCEPT !.id = i] : t \in Tokens, i \in PathIds}

Requests ==
  ListReqs(Tokens, QuerySamples)
    \cup IdReqs("GET /:id")
    \cup IdReqs("DELETE /:id")
    \cup {[BaseReq("POST /login", "none") EXCEPT !.body.email = e, !.body.password = p] :
            e \in Emails, p \in {"", "s3cretpw"}}
    \cup {[BaseReq("POST /", "none") EXCEPT !.body = [b EXCEPT !.address = a]] :
            b \in UserBodies, a \in {None} \cup {Some(l) : l \in AddressLists}}
    \cup {[r EXCEPT !.body.country = a.country, !.body.state = a.state,
                    !.body.street = a.street, !.body.city = a.city,
                    !.body.roomNumber = a.roomNumber] :
            r \in IdReqs("PUT /address/:id"), a \in Addresses}
    \cup {[r EXCEPT !.body.firstName = "Ann", !.body.lastName = "Lee",
                    !.body.phone = "555", !.body.password = p] :
            r \in IdReqs("PUT /:id"), p \in {"", "short", "s3cretpw"}}

----------------------------------------------------------------------------
(* The middleware arrays of the routes *)
Check(field, rule) == [mw |-> "check", field |-> field, rule |-> rule]
Mw(name) == [mw |-> name, field |-> "", rule |-> ""]

ChainGetAll == <<>>

ChainGetById ==
  <<Check("id", "isMongoId"), Mw("extractToken"), Mw("verifyToken"), Mw("fieldsValidator")>>

ChainLogin == <<Check("email", "isEmail"), Mw("fieldsValidator")>>

ChainAddUser ==
  <<Check("firstName", "notEmpty"), Check("lastName", "notEmpty"),
    Check("email", "isEmail"), Check("password", "notEmpty"),
    Check("password", "minLength"),
    Check("country", "eachNotEmpty"), Check("state", "eachNotEmpty"),
    Check("street", "eachNotEmpty"), Check("city", "eachNotEmpty"),
    Mw("fieldsValidator")>>

ChainPutAddress ==
  <<Check("id", "isMongoId"), Check("country", "notEmpty"), Check("state", "notEmpty"),
    Check("street", "notEmpty"), Check("city", "notEmpty"), Mw("fieldsValidator")>>

ChainPutById == <<Check("id", "isMongoId"), Mw("passwordExists"), Mw("fieldsValidator")>>

ChainDeleteUnvalidated == <<Check("id", "isMongoId")>>
ChainDelete == <<Check("id", "isMongoId"), Mw("fieldsValidator")>>

Chain(route) ==
  CASE route = "GET /" -> ChainGetAll
    [] route = "GET /:id" -> ChainGetById
    [] route = "POST /login" -> ChainLogin
    [] route = "POST /" -> ChainAddUser
    [] route = "PUT /address/:id" -> ChainPutAddress
    [] route = "PUT /:id" -> ChainPutById
    [] route = "DELETE /:id" -> ChainDelete

(* whether a check(...) chain records an error for the request *)
CheckFails(m, r) ==
  CASE m.rule = "isMongoId" -> ~IsMongoId(r.id)
    [] m.rule = "notEmpty" -> r.body[m.field] = ""
    [] m.rule = "isEmail" -> ~IsEmail(r.body.email)
    [] m.rule = "minLength" -> Len(r.body.password) < MinPasswordLen
    [] m.rule = "eachNotEmpty" ->
         /\ r.body.address # None
         /\ \E i \in 1..Len(r.body.address[1]) : r.body.address[1][i][m.field] = ""

(* the name a recorded error carries: the array checks are address.*.field *)
ErrorField(m) == IF m.rule = "eachNotEmpty" THEN "address" ELSE m.field

----------------------------------------------------------------------------
(* Errors *)
HttpExceptions(status, message) ==
  [kind |-> "HttpExceptions", status |-> status, message |-> message]

IdNotFoundExceptionNoMessage(args) ==
  [HttpExceptions(NOT_FOUND, "") EXCEPT !.kind = "IdNotFoundException"]
(* new IdNotFoundException(...args): args is <<>> or <<message>> *)
IdNotFoundException(args) ==
  [HttpExceptions(NOT_FOUND, IF args = <<>> THEN "" ELSE args[1])
     EXCEPT !.kind = "IdNotFoundException"]

TypeError == [kind |-> "TypeError", status |-> 0, message |-> "cannot destructure"]
RoleError == [HttpExceptions(FORBIDDEN, "role") EXCEPT !.kind = "RoleError"]
TokenError == [HttpExceptions(UNAUTHORIZED, "token") EXCEPT !.kind = "TokenError"]
ServiceError == [kind |-> "Error", status |-> 0, message |-> "service"]

Undefined == "undefined"
NoLocals == [token |-> Undefined, payload |-> Undefined]
NoHandlerLocals == [set |-> FALSE, pagination |-> [page |-> 0, size |-> 0], sorting |-> ""]

(* validRole(admittedRoles, payload): whether it returns instead of throwing *)
ValidRole(admittedRoles, payload) == payload \in admittedRoles

----------------------------------------------------------------------------
(* State after construction *)
InitRequest ==
  /\ req = BaseReq("GET /", "none")
  /\ pc = "idle"
  /\ idx = 1
  /\ valErrors = {}
  /\ locals = NoLocals
  /\ hlocals = NoHandlerLocals
  /\ trace = <<>>
  /\ svcCalls = <<>>
  /\ responses = <<>>
  /\ nextErrs = <<>>
  /\ unhandled = <<>>
  /\ constructed = <<>>

NoCall ==
  [object |-> 0, method |-> "", args |-> <<>>, repo |-> <<>>, repoResult |-> "",
   result |-> "", before |-> 0, after |-> 0]

InitFurniture ==
  /\ instance = 0
  /\ objects = 0
  /\ viaGet = 0
  /\ returned = {}
  /\ lastCall = NoCall

Init ==
  /\ express5 \in BOOLEAN
  /\ users = {}
  /\ issued = {}
  /\ deleted = {}
  /\ InitRequest
  /\ InitFurniture

----------------------------------------------------------------------------
(* A request reaches the router *)
Arrive ==
  /\ pc \in {"idle", "done"}
  /\ \E r \in Requests :
       /\ r.route = "POST /" => issued # Ids
       /\ req' = r
       /\ pc' = IF Chain(r.route) = <<>> THEN "handler" ELSE "chain"
  /\ idx' = 1
  /\ valErrors' = {}
  /\ locals' = NoLocals
  /\ hlocals' = NoHandlerLocals
  /\ trace' = <<>>
  /\ svcCalls' = <<>>
  /\ responses' = <<>>
  /\ nextErrs' = <<>>
  /\ unhandled' = <<>>
  /\ constructed' = <<>>
  /\ UNCHANGED <<express5, users, issued, deleted, furnitureVars>>

(* the middleware at idx called next() *)
Advance ==
  /\ idx' = idx + 1
  /\ pc' = IF idx = Len(Chain(req.route)) THEN "handler" ELSE "chain"

Current == Chain(req.route)[idx]
AtMiddleware(name) == pc = "chain" /\ Current.mw = name

storeVars == <<express5, users, issued, deleted, furnitureVars>>

(* check(field, message)...: records an error or not, and always calls next() *)
RunCheck ==
  /\ AtMiddleware("check")
  /\ valErrors' = IF CheckFails(Current, req) THEN valErrors \cup {ErrorField(Current)}
                  ELSE valErrors
  /\ trace' = Append(trace, "check")
  /\ Advance
  /\ UNCHANGED <<req, locals, hlocals, svcCalls, responses, nextErrs, unhandled,
                 constructed, storeVars>>

(* extractToken: no token, the error goes to next(error); else res.locals.token is set *)
ExtractToken ==
  /\ AtMiddleware("extractToken")
  /\ trace' = Append(trace, "extractToken")
  /\ IF req.token = "none"
     THEN /\ nextErrs' = Append(nextErrs, TokenError)
          /\ pc' = "done"
          /\ UNCHANGED <<idx, locals>>
     ELSE /\ locals' = [locals EXCEPT !.token = req.token]
          /\ Advance
          /\ UNCHANGED nextErrs
  /\ UNCHANGED <<req, valErrors, hlocals, svcCalls, responses, unhandled, constructed,
                 storeVars>>

(* verifyToken: a token that does not verify goes to next(error); else
   res.locals.payload holds the decoded token, whose payload carries the role *)
VerifyToken ==
  /\ AtMiddleware("verifyToken")
  /\ trace' = Append(trace, "verifyToken")
  /\ IF locals.token \notin Roles
     THEN /\ nextErrs' = Append(nextErrs, TokenError)
          /\ pc' = "done"
          /\ UNCHANGED <<idx, locals>>
     ELSE /\ locals' = [locals EXCEPT !.payload = locals.token]
          /\ Advance
          /\ UNCHANGED nextErrs
  /\ UNCHANGED <<req, valErrors, hlocals, svcCalls, responses, unhandled, constructed,
                 storeVars>>

(* passwordExists: a password that is given must have the minimum length *)
PasswordExists ==
  /\ AtMiddleware("passwordExists")
  /\ valErrors' = IF req.body.password # "" /\ Len(req.body.password) < MinPasswordLen
                  THEN valErrors \cup {"password"} ELSE valErrors
  /\ trace' = Append(trace, "passwordExists")
  /\ Advance
  /\ UNCHANGED <<req, locals, hlocals, svcCalls, responses, nextErrs, unhandled,
                 constructed, storeVars>>

(* fieldsValidator: recorded errors are answered with 422 {errors}; else next() *)
FieldsValidator ==
  /\ AtMiddleware("fieldsValidator")
  /\ trace' = Append(trace, "fieldsValidator")
  /\ IF valErrors # {}
     THEN /\ responses' = Append(responses, [status |-> UNPROCESSABLE, key |-> "errors"])
          /\ pc' = "done"
          /\ UNCHANGED idx
     ELSE /\ Advance
          /\ UNCHANGED responses
  /\ UNCHANGED <<req, valErrors, locals, hlocals, svcCalls, nextErrs, unhandled,
                 constructed, storeVars>>

----------------------------------------------------------------------------
(* How a handler's step ends *)

(* an exception outside any try: the async handler's promise rejects *)
Rejected(err) ==
  /\ pc' = "done"
  /\ IF express5
     THEN nextErrs' = Append(nextErrs, err) /\ UNCHANGED unhandled
     ELSE unhandled' = Append(unhandled, err) /\ UNCHANGED nextErrs

(* catch (error) { next(error); } *)
Caught(err) ==
  /\ pc' = "done"
  /\ nextErrs' = Append(nextErrs, err)
  /\ UNCHANGED unhandled

(* await service.method(args) *)
Invoke(method, args) ==
  /\ pc' = "await"
  /\ svcCalls' = Append(svcCalls, [method |-> method, args |-> args])
  /\ UNCHANGED <<nextErrs, unhandled>>

(* const { payload } = res.locals.payload;  try { validRole(admittedRoles, payload);
   const service = UserService.getInstance(); ... await service.method(args) *)
Guarded(method, args) ==
  IF locals.payload = Undefined
  THEN /\ trace' = Append(trace, "readPayload")
       /\ Rejected(TypeError)
       /\ UNCHANGED svcCalls
  ELSE IF ~ValidRole(AdmittedRoles(req.route), locals.payload)
  THEN /\ trace' = trace \o <<"readPayload", "validRole">>
       /\ Caught(RoleError)
       /\ UNCHANGED svcCalls
  ELSE /\ trace' = trace \o <<"readPayload", "validRole", method>>
       /\ Invoke(method, args)

AtHandler(route) == pc = "handler" /\ req.route = route

handlerFrame == <<req, idx, valErrors, locals, responses, constructed, storeVars>>

(* router.get("/") *)
GetAll ==
  /\ AtHandler("GET /")
  /\ LET pagination == PaginationOf(req.query)
         sorting == SortingOf(req.query)
     IN /\ hlocals' = [set |-> TRUE, pagination |-> pagination, sorting |-> sorting]
        /\ Guarded("getAllUsers", <<pagination, sorting>>)
  /\ UNCHANGED handlerFrame

(* router.get("/:id") *)
GetById ==
  /\ AtHandler("GET /:id")
  /\ Guarded("getAUserById", <<req.id>>)
  /\ UNCHANGED <<hlocals, handlerFrame>>

(* router.post("/login") *)
Login ==
  /\ AtHandler("POST /login")
  /\ trace' = Append(trace, "getAUserByEmail")
  /\ Invoke("getAUserByEmail", <<req.body.email, req.body.password>>)
  /\ UNCHANGED <<hlocals, handlerFrame>>

(* the pattern address: [{ country, state, street, city, roomNumber }] binds the
   five fields of the first element of the array *)
FirstAddress(list) ==
  [country |-> list[1].country, state |-> list[1].state, street |-> list[1].street,
   city |-> list[1].city, roomNumber |-> list[1].roomNumber]

(* const user: User = { firstName, ..., address: [{ country, ... }] } *)
UserOf(body) ==
  [firstName |-> body.firstName, lastName |-> body.lastName, email |-> body.email,
   password |-> body.password, phone |-> body.phone, role |-> body.role,
   address |-> <<FirstAddress(body.address[1])>>]

(* router.post("/"): no try around the handler's body *)
AddUser ==
  /\ AtHandler("POST /")
  /\ IF req.body.address = None \/ req.body.address = Some(<<>>)
     THEN /\ trace' = Append(trace, "destructure")
          /\ Rejected(TypeError)
          /\ UNCHANGED svcCalls
     ELSE /\ trace' = trace \o <<"destructure", "addAUser">>
          /\ Invoke("addAUser", <<UserOf(req.body)>>)
  /\ UNCHANGED <<hlocals, handlerFrame>>

(* const address: Address = { country, state, street, city, roomNumber } *)
AddressOf(body) ==
  [country |-> body.country, state |-> body.state, street |-> body.street,
   city |-> body.city, roomNumber |-> body.roomNumber]

(* router.put("/address/:id") *)
PutAddress ==
  /\ AtHandler("PUT /address/:id")
  /\ Guarded("addAnUserAddress", <<req.id, AddressOf(req.body)>>)
  /\ UNCHANGED <<hlocals, handlerFrame>>

(* const user: User = { firstName, lastName, password, phone } *)
ModifiedUserOf(body) ==
  [firstName |-> body.firstName, lastName |-> body.lastName,
   password |-> body.password, phone |-> body.phone]

(* router.put("/:id") *)
PutById ==
  /\ AtHandler("PUT /:id")
  /\ Guarded("modifyAUserById", <<req.id, ModifiedUserOf(req.body)>>)
  /\ UNCHANGED <<hlocals, handlerFrame>>

(* router.delete("/:id") *)
DeleteById ==
  /\ AtHandler("DELETE /:id")
  /\ Guarded("deleteAUserById", <<req.id>>)
  /\ UNCHANGED <<hlocals, handlerFrame>>

----------------------------------------------------------------------------
(* UserService over the store: what a call can do *)
Min(S) == CHOOSE x \in S : \A y \in S : x <= y

Outcome(ok, err, ctor, us, is, del) ==
  [ok |-> ok, err |-> err, ctor |-> ctor, users |-> us, issued |-> is, deleted |-> del]

Succeeds(us, is, del) == Outcome(TRUE, ServiceError, <<>>, us, is, del)
Fails(err, ctor) == Outcome(FALSE, err, ctor, users, issued, deleted)

NotFoundArgs == {<<>>, <<"id not found">>}
NotFound(id) ==
  {Fails(IdNotFoundException(a), <<[args |-> a, exc |-> IdNotFoundException(a)]>>) :
     a \in NotFoundArgs}

ServiceOutcomes(call) ==
  {Fails(ServiceError, <<>>)} \cup
  CASE call.method = "getAllUsers" -> {Succeeds(users, issued, deleted)}
    [] call.method = "getAUserByEmail" -> {Succeeds(users, issued, deleted)}
    [] call.method = "addAUser" ->
         LET id == Min(Ids \ issued)
         IN {Succeeds(users \cup {id}, issued \cup {id}, deleted \ {id})}
    [] call.method = "deleteAUserById" ->
         IF call.args[1].n \in users
         THEN {Succeeds(users \ {call.args[1].n}, issued, deleted \cup {call.args[1].n})}
         ELSE NotFound(call.args[1])
    [] OTHER ->
         IF call.args[1].n \in users
         THEN {Succeeds(users, issued, deleted)}
         ELSE NotFound(call.args[1])

(* what each handler sends after its awaited call returned *)
SuccessResponse(route) ==
  CASE route = "GET /" -> [status |-> OK, key |-> "users"]
    [] route = "GET /:id" -> [status |-> OK, key |-> "user"]
    [] route = "POST /login" -> [status |-> OK, key |-> "result"]
    [] route = "POST /" -> [status |-> CREATED, key |-> "result"]
    [] route = "PUT /address/:id" -> [status |-> OK, key |-> "result"]
    [] route = "PUT /:id" -> [status |-> OK, key |-> "modifiedUser"]
    [] route = "DELETE /:id" -> [status |-> NO_CONTENT, key |-> ""]

(* whether the handler's await sits inside try { } catch (error) { next(error) } *)
InTry(route) == route # "POST /"

(* the awaited call settles and the handler resumes *)
Settle ==
  /\ pc = "await"
  /\ \E out \in ServiceOutcomes(svcCalls[Len(svcCalls)]) :
       /\ users' = out.users
       /\ issued' = out.issued
       /\ deleted' = out.deleted
       /\ constructed' = constructed \o out.ctor
       /\ IF out.ok
          THEN /\ responses' = Append(responses, SuccessResponse(req.route))
               /\ trace' = Append(trace, "respond")
               /\ pc' = "done"
               /\ UNCHANGED <<nextErrs, unhandled>>
          ELSE /\ trace' = Append(trace, "throw")
               /\ UNCHANGED responses
               /\ IF InTry(req.route) THEN Caught(out.err) ELSE Rejected(out.err)
  /\ UNCHANGED <<express5, req, idx, valErrors, locals, hlocals, svcCalls, furnitureVars>>

Next ==
  \/ Arrive
  \/ RunCheck
  \/ ExtractToken
  \/ VerifyToken
  \/ PasswordExists
  \/ FieldsValidator
  \/ GetAll
  \/ GetById
  \/ Login
  \/ AddUser
  \/ PutAddress
  \/ PutById
  \/ DeleteById
  \/ Settle

Spec == Init /\ [][Next]_vars

----------------------------------------------------------------------------
(* GET / on every query string up to MaxQueryLen: a request at the handler *)
InitList ==
  /\ express5 \in BOOLEAN
  /\ users = {}
  /\ issued = {}
  /\ deleted = {}
  /\ req \in ListReqs({ADMIN}, QueryValues)
  /\ pc = "handler"
  /\ idx = 1
  /\ valErrors = {}
  /\ locals = NoLocals
  /\ hlocals = NoHandlerLocals
  /\ trace = <<>>
  /\ svcCalls = <<>>
  /\ responses = <<>>
  /\ nextErrs = <<>>
  /\ unhandled = <<>>
  /\ constructed = <<>>
  /\ InitFurniture

SpecList == InitList /\ [][GetAll]_vars

----------------------------------------------------------------------------
(* FurnitureService *)
FurnitureMethods ==
  {"getAllFurnitures", "getAFurnitureById", "addAFurniture", "modifyAFurnitureById",
   "deleteAFurnitureById"}

FurnitureIds == {"f1", "f2"}
Amounts == {0, 10}
FurnitureArgs(method) ==
  CASE method = "getAllFurnitures" ->
         {<<[page |-> p, size |-> DefaultSize], o>> : p \in {0, 1}, o \in {"+name", "-cost"}}
    [] method = "addAFurniture" -> {<<[name |-> "chair", cost |-> c, stock |-> 1]>> : c \in Amounts}
    [] method = "modifyAFurnitureById" ->
         {<<i, c, k>> : i \in FurnitureIds, c \in Amounts, k \in {1, 2}}
    [] OTHER -> {<<i>> : i \in FurnitureIds}

RepoResults == {"rows", "none"}

NeedsConstructionAlways(inst) == TRUE
(* if (!FurnitureService.instance) *)
NeedsConstruction(inst) == inst = 0

(* static getInstance(): constructs on the first call, returns the static field *)
GetInstance ==
  /\ IF NeedsConstruction(instance)
     THEN /\ objects < MaxObjects
          /\ objects' = objects + 1
          /\ viaGet' = viaGet + 1
          /\ instance' = objects + 1
     ELSE UNCHANGED <<objects, viaGet, instance>>
  /\ returned' = returned \cup {instance'}
  /\ UNCHANGED <<lastCall, routerVars>>

(* new FurnitureService() by a caller: the constructor is public *)
Construct ==
  /\ objects < MaxObjects
  /\ objects' = objects + 1
  /\ UNCHANGED <<instance, viaGet, returned, lastCall, routerVars>>

(* the repository calls a method of the service makes, in order *)
Forwarded(method, args) ==
  CASE method = "getAllFurnitures" ->
         <<[method |-> "getAllFurnitures", args |-> <<args[1], args[2]>>]>>
    [] method = "getAFurnitureById" ->
         <<[method |-> "getAFurnitureById", args |-> <<args[1]>>]>>
    [] method = "addAFurniture" ->
         <<[method |-> "addAFurniture", args |-> <<args[1]>>]>>
    [] method = "modifyAFurnitureById" ->
         <<[method |-> "modifyAFurnitureById", args |-> <<args[1], args[2], args[3]>>]>>
    [] method = "deleteAFurnitureById" ->
         <<[method |-> "deleteAFurnitureById", args |-> <<args[1]>>]>>

(* a method call on a constructed service: return this.repository.method(args) *)
CallMethod ==
  /\ UNCHANGED <<instance, objects, viaGet, returned, routerVars>>
  /\ \E o \in 1..objects, m \in FurnitureMethods, r \in RepoResults :
       \E a \in FurnitureArgs(m) :
         lastCall' = [object |-> o, method |-> m, args |-> a, repo |-> Forwarded(m, a),
                      repoResult |-> r, result |-> r, before |-> instance,
                      after |-> instance']

NextFurniture ==
  \/ GetInstance
  \/ Construct
  \/ CallMethod

InitService ==
  /\ express5 = FALSE
  /\ users = {}
  /\ issued = {}
  /\ deleted = {}
  /\ InitRequest
  /\ InitFurniture

SpecFurniture == InitService /\ [][NextFurniture]_vars

----------------------------------------------------------------------------
(* Properties *)
Has(seq, x) == \E i \in 1..Len(seq) : seq[i] = x
Finished == pc = "done"
SuccessStatuses == {200, 201, 204}
NoSuccessSent == \A i \in 1..Len(responses) : responses[i].status \notin SuccessStatuses
ValidationAnswer == [status |-> 422, key |-> "errors"]
DisallowedCaller == req.route \in GuardedRoutes /\ req.token \in Roles \ AdmittedRoles(req.route)

(* C1: on a role-guarded endpoint a request whose caller role is not in the
   endpoint's allow-list never invokes a UserService method, never sends the
   success status, and once the handler has run its rejection is the one error
   handed to the error pipeline. *)
C1_RoleRejected ==
  DisallowedCaller =>
    /\ svcCalls = <<>>
    /\ NoSuccessSent
    /\ (Finished /\ responses = <<>>) => (nextErrs = <<RoleError>> /\ unhandled = <<>>)

BadIdRequest == req.route \in IdRoutes /\ ~IsMongoId(req.id) /\ pc # "idle"

(* C2 as stated: on every endpoint with an :id parameter a request whose id is
   not a valid Mongo id ends with the validation error and invokes no
   UserService method, whatever the token and the body are. *)
C2_Original ==
  BadIdRequest =>
    /\ svcCalls = <<>>
    /\ Finished => (responses = <<ValidationAnswer>> /\ nextErrs = <<>> /\ unhandled = <<>>)

(* C2 amended: such a request never reaches the handler and invokes no
   UserService method; it ends with the validation error, except on GET /:id,
   whose token middlewares run before fieldsValidator, where a request with a
   missing or unverifiable token ends with the token error instead. *)
C2_InvalidIdStopsBeforeService ==
  BadIdRequest =>
    /\ svcCalls = <<>>
    /\ pc \notin {"handler", "await"}
    /\ ~Has(trace, "readPayload")
    /\ Finished =>
         /\ unhandled = <<>>
         /\ \/ responses = <<ValidationAnswer>> /\ nextErrs = <<>>
            \/ /\ req.route = "GET /:id"
               /\ req.token \notin Roles
               /\ responses = <<>>
               /\ nextErrs = <<TokenError>>

C2_Witness ==
  /\ Finished
  /\ req.route = "DELETE /:id"
  /\ ~IsMongoId(req.id)
  /\ req.token = ADMIN
  /\ responses = <<ValidationAnswer>>

(* C3: on every user endpoint an exception raised while the handler runs, by
   the service call or by the handler's own reading of the request and of
   res.locals, reaches next(error) exactly once, no rejection is left
   unforwarded, and no success response is sent for that request. *)
C3_ErrorsForwardedOnce ==
  /\ unhandled = <<>>
  /\ Len(nextErrs) <= 1
  /\ nextErrs # <<>> => NoSuccessSent

ServiceThrew == Has(trace, "throw")
AllowedCaller == req.route \in GuardedRoutes => req.token \in AdmittedRoles(req.route)

(* C4: DELETE /:id by a USER or ADMIN caller with a valid id of an existing
   user answers 204 with no body and removes the user, and a later GET /:id of
   that id, with no create in between, ends in the 404 not-found error, never
   in 200 with a user. *)
C4_DeleteThenNotFound ==
  /\ ( /\ Finished
       /\ req.route = "DELETE /:id"
       /\ req.token \in {USER, ADMIN}
       /\ IsMongoId(req.id)
       /\ req.id.n \in users \cup deleted
       /\ ~ServiceThrew )
     => ( /\ responses = <<[status |-> 204, key |-> ""]>>
          /\ req.id.n \notin users )
  /\ ( /\ Finished
       /\ req.route = "GET /:id"
       /\ req.id.n \in deleted
       /\ svcCalls # <<>> )
     => ( /\ NoSuccessSent
          /\ Len(nextErrs) = 1
          /\ nextErrs[1].kind \in {"IdNotFoundException", "Error"} )

(* C5: the user POST / hands to addAUser has the firstName, lastName, email,
   password, phone and role of the request body and the body's whole address
   array, every entry in order. *)
C5_CreatedUserMatchesBody ==
  \A i \in 1..Len(svcCalls) :
    svcCalls[i].method = "addAUser" =>
      LET user == svcCalls[i].args[1]
      IN /\ user.firstName = req.body.firstName
         /\ user.lastName = req.body.lastName
         /\ user.email = req.body.email
         /\ user.password = req.body.password
         /\ user.phone = req.body.phone
         /\ user.role = req.body.role
         /\ user.address = req.body.address[1]

Documented(route) ==
  CASE route = "GET /" -> [status |-> 200, key |-> "users"]
    [] route = "GET /:id" -> [status |-> 200, key |-> "user"]
    [] route = "POST /login" -> [status |-> 200, key |-> "result"]
    [] route = "POST /" -> [status |-> 201, key |-> "result"]
    [] route = "PUT /address/:id" -> [status |-> 200, key |-> "result"]
    [] route = "PUT /:id" -> [status |-> 200, key |-> "modifiedUser"]
    [] route = "DELETE /:id" -> [status |-> 204, key |-> ""]

ValidationPassed ==
  \A i \in 1..Len(Chain(req.route)) :
    Chain(req.route)[i].mw = "check" => ~CheckFails(Chain(req.route)[i], req)

(* C6: a request that passes validation, whose caller's role is allowed and
   whose service call does not fail ends with exactly one response, the
   documented status and body key of its endpoint, after exactly one
   UserService invocation. *)
C6_DocumentedResponse ==
  ( /\ Finished
    /\ ValidationPassed
    /\ valErrors = {}
    /\ AllowedCaller
    /\ ~ServiceThrew )
  => ( /\ responses = <<Documented(req.route)>>
       /\ Len(svcCalls) = 1 )

(* C7: on every role-guarded endpoint validRole runs, and the handler reads
   res.locals.payload, only after extractToken and then verifyToken have
   completed for the same request. *)
C7_TokenVerifiedBeforeRoleCheck ==
  \A i \in 1..Len(trace) :
    trace[i] \in {"readPayload", "validRole"} =>
      \E j \in 1..(i - 1), k \in 1..(i - 1) :
        k < j /\ trace[k] = "extractToken" /\ trace[j] = "verifyToken"

(* C8: every IdNotFoundException, built with a message or with none, has the
   status 404 and the message it was given (the empty message when none). *)
C8_NotFoundStatus ==
  /\ \A i \in 1..Len(constructed) :
       /\ constructed[i].exc.status = 404
       /\ constructed[i].exc.message =
            (IF constructed[i].args = <<>> THEN "" ELSE constructed[i].args[1])
  /\ \A i \in 1..Len(nextErrs) :
       nextErrs[i].kind = "IdNotFoundException" => nextErrs[i].status = 404

C8_Witness ==
  /\ Len(constructed) = 1
  /\ constructed[1].args = <<"id not found">>
  /\ nextErrs = <<constructed[1].exc>>
  /\ nextErrs[1].message = "id not found"

DigitChars == <<"0", "1", "2", "3", "4", "5", "6", "7", "8", "9">>

RECURSIVE NatToString(_)
NatToString(n) ==
  IF n < 10 THEN <<DigitChars[n + 1]>>
  ELSE Append(NatToString(n \div 10), DigitChars[(n % 10) + 1])

IntToString(n) == IF n < 0 THEN <<"-">> \o NatToString(0 - n) ELSE NatToString(n)

(* the decimal spellings of the nonzero integers up to MaxNumber *)
Spellings == {<<n, Some(IntToString(n))>> : n \in ((0 - MaxNumber)..MaxNumber) \ {0}}

(* absent, empty, a spelling of zero, or not a number at all *)
AllZeros(s) == \A i \in 1..Len(s) : s[i] = "0"
NotANumber(s) ==
  \/ \E i \in 2..Len(s) : s[i] \notin {"0", "1", "2", "3", "4", "5", "6", "7", "8", "9"}
  \/ s[1] \notin {"0", "1", "2", "3", "4", "5", "6", "7", "8", "9", "-"}
  \/ s = <<"-">>
Defaults(x) ==
  \/ x = None
  \/ x[1] = <<>>
  \/ AllZeros(x[1])
  \/ (x[1][1] = "-" /\ Len(x[1]) > 1 /\ AllZeros(Tail(x[1])))
  \/ NotANumber(x[1])

Paged(x, value, default) ==
  /\ \A e \in Spellings : x = e[2] => value = e[1]
  /\ Defaults(x) => value = default

(* C9: the pagination GET / builds for getAllUsers has, as page and size, the
   numeric value of the page and size query parameters, 0 and 5 standing in
   when the parameter is absent, not a number or zero; the sorting is sort_by,
   "+name" standing in when it is absent or empty; the size is never 0; and
   getAllUsers is called with exactly these. *)
C9_PaginationDefaults ==
  /\ hlocals.set =>
       /\ Paged(req.query.page, hlocals.pagination.page, 0)
       /\ Paged(req.query.size, hlocals.pagination.size, 5)
       /\ hlocals.pagination.size # 0
       /\ hlocals.sorting =
            (IF req.query.sort_by \in {None, Some("")} THEN "+name" ELSE req.query.sort_by[1])
  /\ \A i \in 1..Len(svcCalls) :
       svcCalls[i].method = "getAllUsers" =>
         svcCalls[i].args = <<hlocals.pagination, hlocals.sorting>>

C9_Witness ==
  /\ hlocals.set
  /\ req.query.page = Some(<<"1", "0">>)
  /\ req.query.size = Some(<<"0">>)
  /\ req.query.sort_by = Some("")
  /\ hlocals.pagination = [page |-> 10, size |-> 5]
  /\ hlocals.sorting = "+name"

(* C10: every getInstance call has returned the one FurnitureService object,
   which getInstance constructed on its first call and never again; each method
   makes exactly one repository call, the method of the same name with the
   same arguments, returns what that call returned, and leaves the singleton
   reference as it was. *)
C10_SingletonForwards ==
  /\ Cardinality(returned) <= 1
  /\ viaGet <= 1
  /\ (viaGet = 0) = (instance = 0)
  /\ (returned = {}) = (instance = 0)
  /\ returned # {} => returned = {instance}
  /\ lastCall.method # "" =>
       /\ lastCall.repo = <<[method |-> lastCall.method, args |-> lastCall.args]>>
       /\ lastCall.result = lastCall.repoResult
       /\ lastCall.after = lastCall.before

C10_Witness ==
  /\ returned = {instance}
  /\ instance = 2
  /\ objects = 3
  /\ lastCall.object = instance
  /\ lastCall.method = "modifyAFurnitureById"
  /\ lastCall.args = <<"f2", 10, 1>>
  /\ lastCall.result = "rows"

====
